---- MODULE Spec2Model ----
(***************************************************************************)
(* Model of apps/drum_machine.py: the step sequencer callbacks, the MIDI   *)
(* input handler, the touch handler and the menu mutation entry points.    *)
(*                                                                         *)
(* Floats are carried in thousandths (1.0 is 1000).  A voice, a MIDI port  *)
(* and the pattern store are outside the program: every call the program   *)
(* makes on them is appended to `calls`, the log of the last step.         *)
(***************************************************************************)
EXTENDS Integers, Sequences, FiniteSets, TLC

VARIABLES
    sequencer,   \* synthkeyboard.Sequencer: length, bpm, steps, active, pos, data, held
    items,       \* sequence_items: per track, the step values of the menu Sequence
    settings,    \* settings.midi_thru, settings.midi_channel, settings.keyboard_touch
    midi_in,     \* messages waiting in hardware.midi_usb / hardware.midi_uart
    arrived,     \* per port, how many messages have arrived so far
    calls,       \* the callbacks run by the last step, each with the calls it made
                 \* on the voices and the MIDI ports, in order
    edits,       \* the calls the last step made on the pattern store, in order
    op,          \* the last step: which handler ran, with which arguments
    patterns,    \* pattern_index.value and the pattern slots kept by menu.save
    tasks,       \* the asyncio loop: the task that runs, where each task is in
                 \* its body, and the limit left in midi_process_messages
    hist         \* history: what the clock played since it was created, and
                 \* the pattern as it was before the last cut of its length

vars == <<sequencer, items, settings, midi_in, arrived, calls, edits, op,
          patterns, tasks, hist>>

---------------------------------------------------------------------------
\* Program constants

NumVoices == 8
DefaultLength == 16
DefaultBpm == 120
ClosedHat == 3
MidiLimit == 32
BpmMinimum == 60
BpmMaximum == 240
LengthMinimum == 1
LengthMaximum == 16
NoChannel == -1

Tracks == 0 .. (NumVoices - 1)
Ports == {"usb", "uart"}
Steps == {"WHOLE", "HALF", "QUARTER", "EIGHTH", "SIXTEENTH"}

---------------------------------------------------------------------------
\* Bounds of the model

MaxQueue == 1
MaxBurst == 66

---------------------------------------------------------------------------
\* Floats in thousandths

Float(n) == n * 1000

\* int(velocity * 127)
IntVelocity(velocity) == (velocity * 127) \div 1000

---------------------------------------------------------------------------
\* Calls on the collaborators

NoMsg == [kind |-> "None", note |-> 0, velocity |-> 0, channel |-> NoChannel, id |-> 0]

Press(voice, velocity) ==
    [fn |-> "press", voice |-> voice, velocity |-> velocity, port |-> "", msg |-> NoMsg]

Release(voice) ==
    [fn |-> "release", voice |-> voice, velocity |-> 0, port |-> "", msg |-> NoMsg]

Send(port, msg) ==
    [fn |-> "send", voice |-> -1, velocity |-> 0, port |-> port, msg |-> msg]

NoteOn(note, velocity, channel) ==
    [kind |-> "NoteOn", note |-> note, velocity |-> velocity, channel |-> channel, id |-> 0]

NoteOff(note) ==
    [kind |-> "NoteOff", note |-> note, velocity |-> 0, channel |-> NoChannel, id |-> 0]

---------------------------------------------------------------------------
\* voices[(notenum - 1) % len(voices)]

VoiceIndexOffByOne(notenum) == notenum % NumVoices

VoiceIndex(notenum) == (notenum - 1) % NumVoices

---------------------------------------------------------------------------
\* sequencer_press(notenum, velocity)

SequencerPress(notenum, velocity) ==
    LET msg == NoteOn(notenum, IntVelocity(velocity), settings.midi_channel)
    IN  << Press(VoiceIndex(notenum), velocity),
           Send("uart", msg),
           Send("usb", msg) >>

\* sequencer_release(notenum)

SequencerReleaseUartOnly(notenum) ==
    LET voice == VoiceIndex(notenum)
        msg == NoteOff(notenum)
    IN  (IF voice = ClosedHat THEN << Release(voice + 1) >> ELSE << >>)
        \o << Release(voice), Send("uart", msg) >>

SequencerReleaseChokesNext(notenum) ==
    LET voice == VoiceIndex(notenum)
        msg == NoteOff(notenum)
    IN  (IF voice >= ClosedHat /\ voice + 1 < NumVoices
         THEN << Release(voice + 1) >> ELSE << >>)
        \o << Release(voice), Send("uart", msg), Send("usb", msg) >>

SequencerRelease(notenum) ==
    LET voice == VoiceIndex(notenum)
        msg == NoteOff(notenum)
    IN  (IF voice = ClosedHat THEN << Release(voice + 1) >> ELSE << >>)
        \o << Release(voice), Send("uart", msg), Send("usb", msg) >>

---------------------------------------------------------------------------
\* midi_process_message(msg)

MidiProcessMessageFilterFirst(msg) ==
    LET echo == IF settings.midi_thru /\ msg.kind # "Unknown"
                THEN << Send("usb", msg), Send("uart", msg) >>
                ELSE << >>
        voice == VoiceIndex(msg.note)
    IN  IF settings.midi_channel # NoChannel /\ msg.channel # settings.midi_channel
        THEN << >>
        ELSE IF msg.kind = "NoteOn"
        THEN IF msg.velocity > 0
             THEN echo \o << Press(voice, Float(msg.velocity)) >>
             ELSE echo \o << Release(voice) >>
        ELSE IF msg.kind = "NoteOff"
        THEN echo \o << Release(voice) >>
        ELSE echo

MidiProcessMessageAlwaysPress(msg) ==
    LET echo == IF settings.midi_thru /\ msg.kind # "Unknown"
                THEN << Send("usb", msg), Send("uart", msg) >>
                ELSE << >>
        voice == VoiceIndex(msg.note)
    IN  IF settings.midi_channel # NoChannel /\ msg.channel # settings.midi_channel
        THEN echo
        ELSE IF msg.kind = "NoteOn"
        THEN echo \o << Press(voice, Float(msg.velocity)) >>
        ELSE IF msg.kind = "NoteOff"
        THEN echo \o << Release(voice) >>
        ELSE echo

MidiProcessMessageMirrors(msg) ==
    LET echo == IF settings.midi_thru /\ msg.kind # "Unknown"
                THEN << Send("usb", msg), Send("uart", msg) >>
                ELSE << >>
        voice == VoiceIndex(msg.note)
        on == NoteOn(msg.note, msg.velocity, settings.midi_channel)
        off == NoteOff(msg.note)
    IN  IF settings.midi_channel # NoChannel /\ msg.channel # settings.midi_channel
        THEN echo
        ELSE IF msg.kind = "NoteOn"
        THEN IF msg.velocity > 0
             THEN echo \o << Press(voice, Float(msg.velocity)),
                             Send("uart", on), Send("usb", on) >>
             ELSE echo \o << Release(voice), Send("uart", off), Send("usb", off) >>
        ELSE IF msg.kind = "NoteOff"
        THEN echo \o << Release(voice), Send("uart", off), Send("usb", off) >>
        ELSE echo

MidiProcessMessage(msg) ==
    LET echo == IF settings.midi_thru /\ msg.kind # "Unknown"
                THEN << Send("usb", msg), Send("uart", msg) >>
                ELSE << >>
        voice == VoiceIndex(msg.note)
    IN  IF settings.midi_channel # NoChannel /\ msg.channel # settings.midi_channel
        THEN echo
        ELSE IF msg.kind = "NoteOn"
        THEN IF msg.velocity > 0
             THEN echo \o << Press(voice, Float(msg.velocity)) >>
             ELSE echo \o << Release(voice) >>
        ELSE IF msg.kind = "NoteOff"
        THEN echo \o << Release(voice) >>
        ELSE echo

\* One callback invocation of the last step and the calls it made

Handled(handler, port, msg, notenum, out) ==
    [handler |-> handler, port |-> port, msg |-> msg, notenum |-> notenum, out |-> out]

---------------------------------------------------------------------------
\* midi_process_messages(midi, limit): receive and handle messages until the
\* port has none or `limit` of them were handled.  The result is the
\* invocations of midi_process_message, in order, and what the port still holds.

RECURSIVE MidiProcessMessagesNoLimit(_, _, _)
MidiProcessMessagesNoLimit(port, queue, limit) ==
    IF queue = << >>
    THEN [handled |-> << >>, queue |-> queue]
    ELSE LET msg == Head(queue)
             rest == MidiProcessMessagesNoLimit(port, Tail(queue), limit - 1)
         IN  [handled |-> << Handled("midi_process_message", port, msg, msg.note,
                                     MidiProcessMessage(msg)) >> \o rest.handled,
              queue |-> rest.queue]

RECURSIVE MidiProcessMessagesFrom(_, _, _)
MidiProcessMessagesFrom(port, queue, limit) ==
    IF limit = 0 \/ queue = << >>
    THEN [handled |-> << >>, queue |-> queue]
    ELSE LET msg == Head(queue)
             rest == MidiProcessMessagesFrom(port, Tail(queue), limit - 1)
         IN  [handled |-> << Handled("midi_process_message", port, msg, msg.note,
                                     MidiProcessMessage(msg)) >> \o rest.handled,
              queue |-> rest.queue]

MidiProcessMessages(port, queue, limit) == MidiProcessMessagesFrom(port, queue, limit)

---------------------------------------------------------------------------
\* The pattern store and the clock state of the sequencer

NoNote == 0

\* The velocity the pattern stores with a note: set_note is called without one
DefaultVelocity == Float(1)

EmptyTrack(length) == [i \in 1 .. length |-> NoNote]

InBounds(seq, track, position) ==
    /\ track \in 0 .. (seq.tracks - 1)
    /\ position \in 0 .. (seq.length - 1)

HasNote(seq, track, position) == seq.data[track][position + 1] # NoNote

SetNote(seq, position, notenum, track) ==
    [seq EXCEPT !.data[track][position + 1] = notenum]

RemoveNote(seq, position, track) ==
    [seq EXCEPT !.data[track][position + 1] = NoNote]

\* truncate or zero-extend every track to `length`
ResizeRepeats(seq, length) ==
    [seq EXCEPT !.length = length,
                !.data = [t \in Tracks |->
                            [i \in 1 .. length |->
                                seq.data[t][((i - 1) % seq.length) + 1]]]]

Resize(seq, length) ==
    [seq EXCEPT !.length = length,
                !.data = [t \in Tracks |->
                            [i \in 1 .. length |->
                                IF i <= seq.length THEN seq.data[t][i] ELSE NoNote]]]

ValidLength(value) == value \in LengthMinimum .. LengthMaximum
ValidBpm(value) == value \in BpmMinimum .. BpmMaximum
ValidSteps(value) == value \in Steps

\* sequencer.length = value, sequencer.bpm = value, sequencer.steps = value,
\* sequencer.active = value
SetLength(seq, value) == IF ValidLength(value) THEN Resize(seq, value) ELSE seq
SetBpm(seq, value) == IF ValidBpm(value) THEN [seq EXCEPT !.bpm = value] ELSE seq
SetSteps(seq, value) == IF ValidSteps(value) THEN [seq EXCEPT !.steps = value] ELSE seq
SetActive(seq, value) == [seq EXCEPT !.active = value]

\* menu.set_attribute(obj, name, value)
SetAttribute(seq, name, value) ==
    CASE name = "bpm" -> SetBpm(seq, value)
      [] name = "steps" -> SetSteps(seq, value)
      [] name = "active" -> SetActive(seq, value)

---------------------------------------------------------------------------
\* Calls on the pattern store

PatternCall(fn, position, notenum, track) ==
    [fn |-> fn, position |-> position, notenum |-> notenum, track |-> track]

\* The note number update_sequencer_track stores for a track

TrackNotenumZeroBased(track) == track

TrackNotenum(track) == track + 1

\* update_sequencer_track(track, value): the loop over enumerate(value) from
\* index i on.  A call outside the store's bounds is rejected by the store
\* and ends the handler.

RECURSIVE UpdateSequencerTrackFrom(_, _, _, _)
UpdateSequencerTrackFrom(seq, track, value, i) ==
    IF i >= Len(value)
    THEN [seq |-> seq, edits |-> << >>]
    ELSE
      LET state == value[i + 1]
          has == PatternCall("has_note", i, NoNote, track)
          set == PatternCall("set_note", i, TrackNotenum(track), track)
          remove == PatternCall("remove_note", i, NoNote, track)
      IN  IF state
          THEN IF ~InBounds(seq, track, i)
               THEN [seq |-> seq, edits |-> << has >>]
               ELSE IF ~HasNote(seq, track, i)
               THEN LET rest == UpdateSequencerTrackFrom(
                                    SetNote(seq, i, TrackNotenum(track), track),
                                    track, value, i + 1)
                    IN  [seq |-> rest.seq, edits |-> << has, set >> \o rest.edits]
               ELSE LET rest == UpdateSequencerTrackFrom(seq, track, value, i + 1)
                    IN  [seq |-> rest.seq, edits |-> << has >> \o rest.edits]
          ELSE IF ~InBounds(seq, track, i)
               THEN [seq |-> seq, edits |-> << remove >>]
               ELSE LET rest == UpdateSequencerTrackFrom(
                                    RemoveNote(seq, i, track), track, value, i + 1)
                    IN  [seq |-> rest.seq, edits |-> << remove >> \o rest.edits]

UpdateSequencerTrack(seq, track, value) ==
    IF track > seq.tracks \/ track < 0
    THEN [seq |-> seq, edits |-> << >>]
    ELSE UpdateSequencerTrackFrom(seq, track, value, 0)

\* sequence_item.length = value: the Sequence keeps `value` steps

ItemResizeKeeps(item, value) == item

ItemResize(item, value) ==
    [i \in 1 .. value |-> IF i <= Len(item) THEN item[i] ELSE FALSE]

\* The step a touch position designates in a Sequence of `length` steps

StepIndexNext(position, length) == (position + 1) % length

StepIndex(position, length) == position % length

---------------------------------------------------------------------------
\* The state after the module has run: the sequencer as constructed, the menu
\* items at their defaults, no message waiting

NoTrack == -1

\* lcd_menu.selected: a Sequence (of a track), a Group (with its current
\* item) or another Item
Selection(kind, track, current_kind, current_track) ==
    [kind |-> kind, track |-> track,
     current_kind |-> current_kind, current_track |-> current_track]

NoSelection == Selection("None", NoTrack, "None", NoTrack)

Op(name, arg, selected) == [name |-> name, arg |-> arg, selected |-> selected]

InitSequencer ==
    [length |-> DefaultLength, tracks |-> NumVoices, bpm |-> DefaultBpm,
     steps |-> "SIXTEENTH", active |-> FALSE, pos |-> 0,
     data |-> [t \in Tracks |-> EmptyTrack(DefaultLength)], held |-> << >>]

ConfigChannels == {NoChannel, 5}

\* The pattern slots: Index runs over 0..15 and starts at 0; no slot is saved

IndexMinimum == 0
IndexMaximum == 15
SlotIndexes == IndexMinimum .. IndexMaximum

Snapshot(saved, bpm, length, steps, values, data) ==
    [saved |-> saved, bpm |-> bpm, length |-> length, steps |-> steps,
     values |-> values, data |-> data]

NoSnapshot == Snapshot(FALSE, 0, 0, "", << >>, << >>)

InitPatterns == [index |-> 0, slots |-> [k \in SlotIndexes |-> NoSnapshot]]

\* main: the four tasks handed to asyncio.gather, none of them started

TaskNames == {"sequencer", "touch", "midi", "controls"}

Start(task) ==
    CASE task = "sequencer" -> "update"
      [] task = "touch" -> "ttp"
      [] task = "midi" -> "usb"
      [] task = "controls" -> "handle"

NoTask == "none"

InitTasks ==
    [running |-> NoTask, pc |-> [t \in TaskNames |-> Start(t)],
     limit |-> MidiLimit, value |-> DefaultLength]

\* The history of a clock that has not ticked and a length never cut

NoHistory ==
    [ticks |-> 0, presses |-> << >>, clean |-> TRUE,
     phase |-> "none", before |-> InitSequencer.data]

Quiet == UNCHANGED <<patterns, tasks, hist>>

InitWith(thrus, channels, touches) ==
    /\ sequencer = InitSequencer
    /\ items = [t \in Tracks |-> [i \in 1 .. DefaultLength |-> FALSE]]
    /\ settings \in [midi_thru : thrus, midi_channel : channels, keyboard_touch : touches]
    /\ midi_in = [p \in Ports |-> << >>]
    /\ arrived = [p \in Ports |-> 0]
    /\ calls = << >>
    /\ edits = << >>
    /\ op = Op("init", 0, NoSelection)
    /\ patterns = InitPatterns
    /\ tasks = InitTasks
    /\ hist = NoHistory

---------------------------------------------------------------------------
\* Sequencer.update: one tick of the clock.  While active it releases the
\* notes of the step it leaves, advances, and presses the notes of the step
\* it reaches, in track order, through on_release and on_press.

RECURSIVE NotesAt(_, _, _)
NotesAt(seq, position, track) ==
    IF track >= seq.tracks
    THEN << >>
    ELSE (IF HasNote(seq, track, position)
          THEN << seq.data[track][position + 1] >>
          ELSE << >>) \o NotesAt(seq, position, track + 1)

TickPlaysThenAdvances ==
    /\ op' = Op("tick", 0, NoSelection)
    /\ edits' = << >>
    /\ UNCHANGED <<items, settings, midi_in, arrived>>
    /\ IF sequencer.active
       THEN LET notes == NotesAt(sequencer, sequencer.pos, 0)
                held == sequencer.held
            IN  /\ sequencer' =
                     [sequencer EXCEPT !.pos = (@ + 1) % sequencer.length,
                                       !.held = notes]
                /\ calls' =
                     [i \in 1 .. Len(held) |->
                        Handled("sequencer_release", "", NoMsg, held[i],
                                SequencerRelease(held[i]))]
                     \o
                     [i \in 1 .. Len(notes) |->
                        Handled("sequencer_press", "", NoMsg, notes[i],
                                SequencerPress(notes[i], DefaultVelocity))]
       ELSE /\ calls' = << >>
            /\ UNCHANGED sequencer

Tick ==
    /\ op' = Op("tick", 0, NoSelection)
    /\ edits' = << >>
    /\ UNCHANGED <<items, settings, midi_in, arrived>>
    /\ IF sequencer.active
       THEN LET pos == (sequencer.pos + 1) % sequencer.length
                notes == NotesAt(sequencer, pos, 0)
                held == sequencer.held
            IN  /\ sequencer' = [sequencer EXCEPT !.pos = pos, !.held = notes]
                /\ calls' =
                     [i \in 1 .. Len(held) |->
                        Handled("sequencer_release", "", NoMsg, held[i],
                                SequencerRelease(held[i]))]
                     \o
                     [i \in 1 .. Len(notes) |->
                        Handled("sequencer_press", "", NoMsg, notes[i],
                                SequencerPress(notes[i], DefaultVelocity))]
       ELSE /\ calls' = << >>
            /\ UNCHANGED sequencer

---------------------------------------------------------------------------
\* midi_task: one pass, both ports

MidiTask ==
    LET usb == MidiProcessMessages("usb", midi_in["usb"], MidiLimit)
        uart == MidiProcessMessages("uart", midi_in["uart"], MidiLimit)
    IN  /\ calls' = usb.handled \o uart.handled
        /\ midi_in' = [p \in Ports |-> IF p = "usb" THEN usb.queue ELSE uart.queue]
        /\ op' = Op("midi_task", Len(usb.handled) + Len(uart.handled), NoSelection)
        /\ edits' = << >>
        /\ UNCHANGED <<sequencer, items, settings, arrived>>

\* A message arrives at a port (the environment)

MidiArrive(port, msg) ==
    /\ midi_in' = [midi_in EXCEPT ![port] = Append(@, msg)]
    /\ calls' = << >>
    /\ edits' = << >>
    /\ op' = Op("arrive", 1, NoSelection)
    /\ UNCHANGED <<sequencer, items, settings, arrived>>

\* n messages arrive at a port between two passes, numbered in arrival order

MidiBurst(port, n, msg) ==
    /\ arrived' = [arrived EXCEPT ![port] = @ + n]
    /\ midi_in' = [midi_in EXCEPT ![port] =
                      @ \o [i \in 1 .. n |-> [msg EXCEPT !.id = arrived[port] + i]]]
    /\ calls' = << >>
    /\ edits' = << >>
    /\ op' = Op("arrive", n, NoSelection)
    /\ UNCHANGED <<sequencer, items, settings>>

---------------------------------------------------------------------------
\* ttp_press(position), with lcd_menu.selected as the menu holds it

\* the track of the Sequence ttp_press edits, NoTrack when it returns early
TouchedTrack(selected) ==
    IF ~settings.keyboard_touch
    THEN NoTrack
    ELSE IF selected.kind = "Sequence"
    THEN selected.track
    ELSE IF selected.kind = "Group" /\ selected.current_kind = "Sequence"
    THEN selected.current_track
    ELSE NoTrack

TtpPress(position, selected) ==
    LET track == TouchedTrack(selected)
    IN  /\ op' = Op("ttp_press", position, selected)
        /\ calls' = << >>
        /\ UNCHANGED <<settings, midi_in, arrived>>
        /\ IF track = NoTrack
           THEN /\ edits' = << >>
                /\ UNCHANGED <<sequencer, items>>
           ELSE LET step == StepIndex(position, Len(items[track]))
                    value == [items[track] EXCEPT ![step + 1] = ~@]
                    updated == UpdateSequencerTrack(sequencer, track, value)
                IN  /\ items' = [items EXCEPT ![track] = value]
                    /\ sequencer' = updated.seq
                    /\ edits' = updated.edits

---------------------------------------------------------------------------
\* The menu's on_update callbacks

\* update_sequencer_length(value, item)
UpdateSequencerLength(value) ==
    /\ sequencer' = SetLength(sequencer, value)
    /\ items' = [t \in Tracks |-> ItemResize(items[t], value)]
    /\ op' = Op("update_sequencer_length", value, NoSelection)
    /\ calls' = << >>
    /\ edits' = << >>
    /\ UNCHANGED <<settings, midi_in, arrived>>

\* "Active": menu.set_attribute(sequencer, 'active', value)
UpdateActiveRestarts(value) ==
    /\ sequencer' = [SetAttribute(sequencer, "active", value) EXCEPT !.pos = 0]
    /\ op' = Op("update_active", IF value THEN 1 ELSE 0, NoSelection)
    /\ calls' = << >>
    /\ edits' = << >>
    /\ UNCHANGED <<items, settings, midi_in, arrived>>

UpdateActive(value) ==
    /\ sequencer' = SetAttribute(sequencer, "active", value)
    /\ op' = Op("update_active", IF value THEN 1 ELSE 0, NoSelection)
    /\ calls' = << >>
    /\ edits' = << >>
    /\ UNCHANGED <<items, settings, midi_in, arrived>>

\* "BPM": menu.set_attribute(sequencer, 'bpm', value)
UpdateBpm(value) ==
    /\ sequencer' = SetAttribute(sequencer, "bpm", value)
    /\ op' = Op("update_bpm", value, NoSelection)
    /\ calls' = << >>
    /\ edits' = << >>
    /\ UNCHANGED <<items, settings, midi_in, arrived>>

\* "Step": menu.set_attribute(sequencer, 'steps', steps[value][1]); an index
\* outside the list raises and nothing is set
StepsList == << "WHOLE", "HALF", "QUARTER", "EIGHTH", "SIXTEENTH" >>

UpdateSteps(value) ==
    /\ sequencer' =
         LET index == IF value < 0 THEN value + Len(StepsList) ELSE value
         IN  IF index + 1 \in DOMAIN StepsList
             THEN SetAttribute(sequencer, "steps", StepsList[index + 1])
             ELSE sequencer
    /\ op' = Op("update_steps", value, NoSelection)
    /\ calls' = << >>
    /\ edits' = << >>
    /\ UNCHANGED <<items, settings, midi_in, arrived>>

---------------------------------------------------------------------------
\* The inputs

Message(kind, note, velocity, channel) ==
    [kind |-> kind, note |-> note, velocity |-> velocity, channel |-> channel, id |-> 0]

\* notes 4 and 12 are eight apart; note 0 is the lowest MIDI note
MidiNotes == {0, 4, 12}
MidiVelocities == {0, 100}
MidiChannels == {3, 5}

Messages ==
    {Message("NoteOn", n, v, c) : n \in MidiNotes, v \in MidiVelocities, c \in MidiChannels}
    \cup {Message("NoteOff", n, 0, c) : n \in MidiNotes, c \in MidiChannels}
    \cup {Message("ControlChange", 0, 0, c) : c \in MidiChannels}
    \cup {Message("Unknown", 0, 0, NoChannel)}

PlayedMessages == {Message("NoteOn", 12, 100, 5), Message("NoteOff", 4, 0, 5)}

\* touch pads 0 and 4: pad 4 lies past the end of a pattern of 4 steps
TouchPositions == {0, 4}

Selections ==
    { Selection("Sequence", 3, "Item", NoTrack),
      Selection("Group", NoTrack, "Sequence", 4),
      Selection("Group", NoTrack, "Item", NoTrack),
      Selection("Item", NoTrack, "Item", NoTrack) }

PlayedSelections ==
    { Selection("Sequence", 3, "Item", NoTrack),
      Selection("Item", NoTrack, "Item", NoTrack) }

MenuLengths == {4, 16}

Waiting == Len(midi_in["usb"]) + Len(midi_in["uart"])

---------------------------------------------------------------------------
\* The whole program: the clock, the MIDI task, the touch pads and the menu

Next ==
    \/ Tick /\ Quiet
    \/ MidiTask /\ Quiet
    \/ \E port \in Ports, msg \in PlayedMessages :
          Waiting < MaxQueue /\ MidiArrive(port, msg) /\ Quiet
    \/ \E selected \in PlayedSelections : TtpPress(0, selected) /\ Quiet
    \/ \E value \in MenuLengths : UpdateSequencerLength(value) /\ Quiet
    \/ \E value \in BOOLEAN : UpdateActive(value) /\ Quiet

Spec == InitWith(BOOLEAN, {5}, {TRUE}) /\ [][Next]_vars

\* The clock, the touch pads and the menu, with more positions

NextSequencer ==
    \/ Tick /\ Quiet
    \/ \E position \in TouchPositions, selected \in Selections :
          TtpPress(position, selected) /\ Quiet
    \/ \E value \in MenuLengths : UpdateSequencerLength(value) /\ Quiet
    \/ \E value \in BOOLEAN : UpdateActive(value) /\ Quiet

SpecSequencer == InitWith({FALSE}, ConfigChannels, BOOLEAN) /\ [][NextSequencer]_vars

\* The MIDI task, with every kind of message

NextMidi ==
    \/ MidiTask /\ Quiet
    \/ \E port \in Ports, msg \in Messages :
          Waiting < MaxQueue /\ MidiArrive(port, msg) /\ Quiet

SpecMidi == InitWith(BOOLEAN, ConfigChannels, {TRUE}) /\ [][NextMidi]_vars

\* The MIDI task under bursts of messages longer than one pass takes

BurstSizes == {MidiLimit, MidiLimit + 1}

NextBatch ==
    \/ MidiTask /\ Quiet
    \/ \E port \in Ports, n \in BurstSizes :
          /\ arrived[port] + n <= MaxBurst
          /\ MidiBurst(port, n, Message("NoteOn", 1, 100, 5))
          /\ Quiet

SpecBatch == InitWith({FALSE}, {5}, {TRUE}) /\ [][NextBatch]_vars

\* update_sequencer_track called as a function, with any track

CallUpdateSequencerTrack(track, value) ==
    LET done == UpdateSequencerTrack(sequencer, track, value)
    IN  /\ sequencer' = done.seq
        /\ edits' = done.edits
        /\ calls' = << >>
        /\ op' = Op("update_sequencer_track", track, NoSelection)
        /\ UNCHANGED <<items, settings, midi_in, arrived>>

\* The entry points bound to the menu, called with values inside and
\* outside the supported domain

EntryBpms == {59, 60, 120, 240, 241}
EntryLengths == {0, 1, 4, 16, 17}
EntrySteps == {-6, -1, 0, 2, 4, 5}
EntryTracks == {-1, 0, 7, 8, 9}
EntryValues == {<<TRUE>>, <<FALSE>>}

NextEntry ==
    \/ \E value \in EntryBpms : UpdateBpm(value) /\ Quiet
    \/ \E value \in EntryLengths : UpdateSequencerLength(value) /\ Quiet
    \/ \E value \in EntrySteps : UpdateSteps(value) /\ Quiet
    \/ \E track \in EntryTracks, value \in EntryValues :
          CallUpdateSequencerTrack(track, value) /\ Quiet

SpecEntry == InitWith({FALSE}, {5}, {TRUE}) /\ [][NextEntry]_vars

---------------------------------------------------------------------------
\* Reading the log of a step

VoiceCalls(out) == SelectSeq(out, LAMBDA c : c.fn \in {"press", "release"})

Sends(out, port) == SelectSeq(out, LAMBDA c : c.fn = "send" /\ c.port = port)

\* voice v is the one note number n designates: v is in 0..7 and n - 1 is v
\* plus a multiple of 8
Resolves(n, v) ==
    /\ v \in Tracks
    /\ \E k \in -1 .. 16 : n - 1 = (NumVoices * k) + v

\* the track a selection focuses, NoTrack when it focuses none
Focused(selected) ==
    IF selected.kind = "Sequence"
    THEN selected.track
    ELSE IF selected.kind = "Group" /\ selected.current_kind = "Sequence"
    THEN selected.current_track
    ELSE NoTrack

---------------------------------------------------------------------------
\* C1: every release of voice 3 (Closed Hat), whatever callback makes it, is
\* immediately preceded, in the same callback, by a release of voice 4
\* (Open Hat).  The MIDI handler releases voice 3 alone.

C1_ReleaseOfTrack3ChokesVoice4 ==
    \A i \in DOMAIN calls :
        LET out == calls[i].out
        IN  \A j \in DOMAIN out :
                (out[j].fn = "release" /\ out[j].voice = ClosedHat)
                => /\ j > 1
                   /\ out[j - 1].fn = "release"
                   /\ out[j - 1].voice = ClosedHat + 1

\* C2: a callback given note number n, by the clock or by MIDI-In, presses or
\* releases the voice at index (n - 1) mod 8, an index within 0..7; the only
\* other voice call it makes is the forced release of voice 4 ahead of a
\* release of voice 3.

C2_NoteResolvesToVoice ==
    \A i \in DOMAIN calls :
        LET h == calls[i]
            v == VoiceCalls(h.out)
        IN  \A j \in DOMAIN v :
                /\ v[j].voice \in Tracks
                /\ j = Len(v) => Resolves(h.notenum, v[j].voice)
                /\ j < Len(v) => /\ h.handler = "sequencer_release"
                                 /\ v[j].fn = "release"
                                 /\ v[j].voice = ClosedHat + 1
                                 /\ v[Len(v)].voice = ClosedHat

\* C2 witness: MIDI note 12 pressed voice 3, the voice of note 4
C2_Witness ==
    \E i \in DOMAIN calls :
        /\ calls[i].handler = "midi_process_message"
        /\ calls[i].notenum = 12
        /\ \E j \in DOMAIN calls[i].out :
              calls[i].out[j].fn = "press" /\ calls[i].out[j].voice = 3

\* C3 as stated: every voice call of a clock callback, the forced release of
\* voice 4 included, has exactly one Note-On (for a press) or Note-Off (for a
\* release) on each port carrying the note number voice + 1.

C3_EveryClockVoiceCallMirrored ==
    \A i \in DOMAIN calls :
        calls[i].handler \in {"sequencer_press", "sequencer_release"} =>
            LET out == calls[i].out
            IN  \A j \in DOMAIN out :
                    out[j].fn \in {"press", "release"} =>
                        \A port \in Ports :
                            Cardinality(
                              {k \in DOMAIN out :
                                 /\ out[k].fn = "send"
                                 /\ out[k].port = port
                                 /\ out[k].msg.note = out[j].voice + 1
                                 /\ out[k].msg.kind =
                                      (IF out[j].fn = "press" THEN "NoteOn" ELSE "NoteOff")})
                            = 1

\* C3 amended: every sequencer_press and sequencer_release run by the clock
\* sends exactly one Note-On, respectively Note-Off, on each port, carrying
\* the note number track + 1 of the voice the callback was run for; the
\* forced release of voice 4 ahead of a release of voice 3 sends no message.

C3_ClockCallbackMirrored ==
    \A i \in DOMAIN calls :
        calls[i].handler \in {"sequencer_press", "sequencer_release"} =>
            LET out == calls[i].out
                v == VoiceCalls(out)
                kind == IF calls[i].handler = "sequencer_press" THEN "NoteOn" ELSE "NoteOff"
                fn == IF calls[i].handler = "sequencer_press" THEN "press" ELSE "release"
            IN  /\ Len(v) >= 1
                /\ v[Len(v)].fn = fn
                /\ \A port \in Ports :
                      LET sent == Sends(out, port)
                      IN  /\ Len(sent) = 1
                          /\ sent[1].msg.kind = kind
                          /\ sent[1].msg.note = v[Len(v)].voice + 1
                /\ Len(out) = Len(v) + 2

\* C3 witness: the clock released track 3, with the forced release of voice 4
C3_Witness ==
    \E i \in DOMAIN calls :
        /\ calls[i].handler = "sequencer_release"
        /\ calls[i].notenum = ClosedHat + 1
        /\ Len(VoiceCalls(calls[i].out)) = 2

\* C4: with thru on, a recognized message is echoed first, once to each port,
\* before any voice call; when a channel filter is set and the message's
\* channel differs, the echo is all the handler does.

C4_ThruBeforeFilter ==
    \A i \in DOMAIN calls :
        LET h == calls[i]
        IN  (/\ h.handler = "midi_process_message"
             /\ settings.midi_thru
             /\ h.msg.kind # "Unknown") =>
                /\ Len(h.out) >= 2
                /\ h.out[1] = Send("usb", h.msg)
                /\ h.out[2] = Send("uart", h.msg)
                /\ \A j \in 3 .. Len(h.out) : h.out[j].fn # "send"
                /\ (settings.midi_channel # NoChannel
                      /\ h.msg.channel # settings.midi_channel) => Len(h.out) = 2

\* C4 witness: thru on, filter 5, a Note-On on channel 3 was echoed and dropped
C4_Witness ==
    /\ settings.midi_thru
    /\ settings.midi_channel = 5
    /\ \E i \in DOMAIN calls :
          /\ calls[i].msg.kind = "NoteOn"
          /\ calls[i].msg.velocity > 0
          /\ calls[i].msg.channel = 3
          /\ Len(calls[i].out) = 2

\* C5: a Note-On that passes the channel filter makes exactly one voice call
\* on the resolved voice: a release when its velocity is 0, a press when its
\* velocity is greater than 0.

C5_NoteOnVelocityZeroReleases ==
    \A i \in DOMAIN calls :
        LET h == calls[i]
            v == VoiceCalls(h.out)
        IN  (/\ h.handler = "midi_process_message"
             /\ h.msg.kind = "NoteOn"
             /\ (settings.midi_channel = NoChannel
                   \/ h.msg.channel = settings.midi_channel)) =>
                /\ Len(v) = 1
                /\ Resolves(h.msg.note, v[1].voice)
                /\ v[1].fn = (IF h.msg.velocity = 0 THEN "release" ELSE "press")

\* C5 witness: a Note-On with velocity 0 on the filter's channel released a voice
C5_Witness ==
    /\ settings.midi_channel = 5
    /\ \E i \in DOMAIN calls :
          /\ calls[i].msg.kind = "NoteOn"
          /\ calls[i].msg.velocity = 0
          /\ calls[i].msg.channel = 5
          /\ VoiceCalls(calls[i].out) = << Release(3) >>

\* C6: one pass of the MIDI task handles, from each port, the messages at
\* the head of its queue in arrival order, each once, at most 32 of them and
\* all of them when fewer wait; the messages beyond the bound stay queued,
\* in order, for a later pass.

C6_BoundedOrderedDrain ==
    [][op'.name = "midi_task" =>
          \A port \in Ports :
              LET handled == SelectSeq(calls', LAMBDA h : h.port = port)
                  waiting == midi_in[port]
              IN  /\ Len(handled) <= 32
                  /\ Len(handled) <= Len(waiting)
                  /\ \A i \in DOMAIN handled : handled[i].msg = waiting[i]
                  /\ midi_in'[port] = SubSeq(waiting, Len(handled) + 1, Len(waiting))
                  /\ Len(handled) < 32 => midi_in'[port] = << >>]_vars

\* C6 witness: a pass handled 32 messages of the USB port, 1 to 32, and left
\* the 33rd queued
C6_Witness ==
    /\ op.name = "midi_task"
    /\ Len(SelectSeq(calls, LAMBDA h : h.port = "usb")) = 32
    /\ calls[1].msg.id = 1
    /\ Len(midi_in["usb"]) = 1
    /\ midi_in["usb"][1].id = 33

\* C7: a touch at position p, with touch input enabled and a track focused in
\* the menu, flips the step at index p mod length of that track, in the menu
\* item and in the pattern, and no other step; with touch input disabled or
\* no track focused it changes nothing; it makes no voice call and sends no
\* MIDI message.

C7_TouchFlipsOneStep ==
    [][op'.name = "ttp_press" =>
          LET track == Focused(op'.selected)
              length == sequencer.length
          IN  /\ calls' = << >>
              /\ sequencer'.length = length
              /\ IF ~settings.keyboard_touch \/ track = NoTrack
                 THEN UNCHANGED <<sequencer, items>>
                 ELSE \A t \in Tracks :
                        /\ Len(items'[t]) = length
                        /\ \A i \in 1 .. length :
                              LET touched == (t = track /\ i = (op'.arg % length) + 1)
                              IN  /\ items'[t][i] = (IF touched THEN ~items[t][i]
                                                     ELSE items[t][i])
                                  /\ HasNote(sequencer', t, i - 1) =
                                       (IF touched THEN ~HasNote(sequencer, t, i - 1)
                                        ELSE HasNote(sequencer, t, i - 1))]_vars

\* C7 witness: with a pattern of 4 steps, a touch at position 4 set step 0 of
\* the focused track 3
C7_Witness ==
    /\ op.name = "ttp_press"
    /\ op.arg = 4
    /\ Focused(op.selected) = 3
    /\ settings.keyboard_touch
    /\ sequencer.length = 4
    /\ items[3] = << TRUE, FALSE, FALSE, FALSE >>
    /\ HasNote(sequencer, 3, 0)

\* C8: after update_sequencer_track(track, value), run when a step of the
\* track's menu item changes, the pattern has a note at (track, i) exactly
\* when value[i] is true, every note of the track is track + 1, a cell
\* that held a note and stays true gets no set_note call, and the cells of
\* the other tracks are unchanged.

C8_UpdateTrackFollowsValue ==
    [][(op'.name = "ttp_press" /\ edits' # << >>) =>
          LET track == Focused(op'.selected)
              value == items'[track]
          IN  /\ \A i \in DOMAIN value :
                    /\ HasNote(sequencer', track, i - 1) = value[i]
                    /\ value[i] => sequencer'.data[track][i] = track + 1
                    /\ (value[i] /\ HasNote(sequencer, track, i - 1)) =>
                          /\ sequencer'.data[track][i] = sequencer.data[track][i]
                          /\ \A k \in DOMAIN edits' :
                                ~(/\ edits'[k].fn = "set_note"
                                  /\ edits'[k].track = track
                                  /\ edits'[k].position = i - 1)
              /\ \A t \in Tracks \ {track} :
                    sequencer'.data[t] = sequencer.data[t]
              /\ \A k \in DOMAIN edits' : edits'[k].track = track]_vars

\* C8 witness: track 3 held a note at step 0; step 4 was switched on, and the
\* update stored note 4 at step 4 without a set_note for step 0
C8_Witness ==
    /\ op.name = "ttp_press"
    /\ op.arg = 4
    /\ Focused(op.selected) = 3
    /\ sequencer.length = 16
    /\ sequencer.data[3][1] = 4
    /\ sequencer.data[3][5] = 4
    /\ \E k \in DOMAIN edits :
          edits[k].fn = "set_note" /\ edits[k].position = 4 /\ edits[k].notenum = 4
    /\ \E k \in DOMAIN edits : edits[k].fn = "has_note" /\ edits[k].position = 0
    /\ ~\E k \in DOMAIN edits : edits[k].fn = "set_note" /\ edits[k].position = 0

\* C9: every press of a voice, by the clock or by an incoming Note-On, passes
\* a velocity within 0.0 .. 1.0, and every Note-On the clock sends carries a
\* velocity within 0 .. 127.  The MIDI handler passes the message's velocity,
\* 1 .. 127, to press unscaled.

C9_VelocityInRange ==
    \A i \in DOMAIN calls :
        LET out == calls[i].out
        IN  \A j \in DOMAIN out :
                /\ out[j].fn = "press" => out[j].velocity \in 0 .. Float(1)
                /\ (out[j].fn = "send" /\ calls[i].handler = "sequencer_press") =>
                      out[j].msg.velocity \in 0 .. 127

\* C10: an entry point handed a bpm outside 60..240, a length outside 1..16
\* or a step index that names no subdivision stores nothing: the sequencer
\* and the menu items keep their previous values.  update_sequencer_length
\* sets the length of the 8 sequence items without a check.

C10_InvalidValueRejected ==
    [][(\/ op'.name = "update_bpm" /\ op'.arg \notin BpmMinimum .. BpmMaximum
        \/ op'.name = "update_sequencer_length"
             /\ op'.arg \notin LengthMinimum .. LengthMaximum
        \/ op'.name = "update_steps" /\ op'.arg \notin -5 .. 4)
       => UNCHANGED <<sequencer, items>>]_vars

---------------------------------------------------------------------------
\* C11: update_sequencer_track called with a track outside 0 .. tracks - 1
\* (the track count itself and a negative track included) is rejected
\* without any effect: the step makes no has_note, set_note or remove_note
\* call on the pattern and leaves every cell as it was.

C11_OutOfRangeTrackRejected ==
    [][op'.name = "update_sequencer_track" /\ op'.arg \notin Tracks
       => edits' = << >> /\ UNCHANGED sequencer]_vars

---------------------------------------------------------------------------
\* The clock watched from its creation: a pattern of 16 steps, one track
\* edited by touch, and the presses of every tick kept in the history

MaxTicks == 16

ClockSelections == { Selection("Sequence", 0, "Item", NoTrack) }

\* the pattern is 16 steps long and holds one note, at (track, position)
OnlyNote(seq, track, position) ==
    /\ seq.length = DefaultLength
    /\ \A t \in Tracks, i \in 0 .. (seq.length - 1) :
          HasNote(seq, t, i) <=> (t = track /\ i = position)

\* the voices the sequencer_press callbacks of a step pressed, with the
\* index of the tick
Triggers(out, tick) ==
    LET pressed == SelectSeq(out, LAMBDA h : h.handler = "sequencer_press")
    IN  [i \in 1 .. Len(pressed) |->
           [tick |-> tick, track |-> VoiceCalls(pressed[i].out)[1].voice]]

\* The history counts the ticks of the running clock and keeps their presses
\* for as long as every tick has found the single note at (0, 0)
Watched ==
    IF sequencer.active /\ hist.clean
    THEN IF OnlyNote(sequencer, 0, 0)
         THEN [hist EXCEPT !.ticks = @ + 1,
                           !.presses = @ \o Triggers(calls', hist.ticks)]
         ELSE [hist EXCEPT !.clean = FALSE, !.ticks = 0, !.presses = << >>]
    ELSE hist

ClockTick ==
    /\ hist.ticks < MaxTicks
    /\ Tick
    /\ hist' = Watched
    /\ UNCHANGED <<patterns, tasks>>

NextClock ==
    \/ ClockTick
    \/ \E position \in TouchPositions, selected \in ClockSelections :
          TtpPress(position, selected) /\ Quiet
    \/ \E value \in BOOLEAN : UpdateActive(value) /\ Quiet

SpecClock == InitWith({FALSE}, {5}, {TRUE}) /\ [][NextClock]_vars

\* C12 (as stated): with length 16 and the single note at (track 0,
\* position 0), one full cycle of 16 ticks presses track 0 exactly once, at
\* tick index 0, and presses no other track.

---------------------------------------------------------------------------
\* C13: while the clock is stopped a tick check leaves current_step and the
\* whole sequencer as they are and runs no callback (no press, no release,
\* no MIDI message); setting Active, to false or to true, changes nothing
\* but the active flag, so the clock resumes from the step and the pattern
\* it stopped with, and the first tick after resuming advances from there.

C13_StoppedClockSilent ==
    [][/\ op'.name = "tick" /\ ~sequencer.active
            => calls' = << >> /\ edits' = << >> /\ UNCHANGED <<sequencer, items>>
       /\ op'.name = "update_active"
            => /\ sequencer' = [sequencer EXCEPT !.active = (op'.arg = 1)]
               /\ calls' = << >>
               /\ UNCHANGED items
       /\ op'.name = "tick" /\ sequencer.active
            => /\ sequencer'.pos = (sequencer.pos + 1) % sequencer.length
               /\ sequencer'.data = sequencer.data]_vars

\* a tick check of the stopped clock, stopped in the middle of the pattern
\* with a note on the very next step
C13_Witness ==
    /\ op.name = "tick"
    /\ ~sequencer.active
    /\ sequencer.length = DefaultLength
    /\ sequencer.pos = 3
    /\ HasNote(sequencer, 3, 4)
    /\ calls = << >>

---------------------------------------------------------------------------
\* The Length item and the touch pads, with the pattern as it was before the
\* last cut of the length kept in the history

ShortLength == 4

\* The history of update_sequencer_length(value): a cut from 16 to 4 keeps
\* the pattern it cut, growing back to 16 right after it closes the round
\* trip, any other length update forgets it
Resized(value) ==
    IF sequencer.length = DefaultLength /\ value = ShortLength
    THEN [hist EXCEPT !.phase = "cut", !.before = sequencer.data]
    ELSE IF sequencer.length = ShortLength /\ value = DefaultLength
                /\ hist.phase = "cut"
    THEN [hist EXCEPT !.phase = "restored"]
    ELSE [hist EXCEPT !.phase = "none", !.before = InitSequencer.data]

ResizeLength(value) ==
    /\ UpdateSequencerLength(value)
    /\ hist' = Resized(value)
    /\ UNCHANGED <<patterns, tasks>>

\* an edit of the pattern ends the round trip that was being watched
ResizeTouch(position, selected) ==
    /\ TtpPress(position, selected)
    /\ hist' = [hist EXCEPT !.phase = "none", !.before = InitSequencer.data]
    /\ UNCHANGED <<patterns, tasks>>

ResizeSelections ==
    { Selection("Sequence", 3, "Item", NoTrack),
      Selection("Group", NoTrack, "Sequence", 4) }

NextResize ==
    \/ \E value \in MenuLengths : ResizeLength(value)
    \/ \E position \in TouchPositions, selected \in ResizeSelections :
          ResizeTouch(position, selected)

SpecResize == InitWith({FALSE}, {5}, {TRUE}) /\ [][NextResize]_vars

\* C14: after the pattern length went from 16 to 4 and back to 16, every
\* track has no note at positions 4..15, whatever it held there before the
\* cut, and has at positions 0..3 the notes it had before the cut; after
\* the cut alone, the 4 remaining positions hold the notes they had.

C14_LengthRoundTripDropsTail ==
    /\ hist.phase = "cut"
         => /\ sequencer.length = ShortLength
            /\ \A t \in Tracks, i \in 1 .. ShortLength :
                  sequencer.data[t][i] = hist.before[t][i]
    /\ hist.phase = "restored"
         => /\ sequencer.length = DefaultLength
            /\ \A t \in Tracks :
                  /\ Len(sequencer.data[t]) = DefaultLength
                  /\ \A i \in 1 .. ShortLength :
                        sequencer.data[t][i] = hist.before[t][i]
                  /\ \A i \in (ShortLength + 1) .. DefaultLength :
                        sequencer.data[t][i] = NoNote

\* the round trip is closed, and the pattern held notes at position 0 and at
\* position 4 of track 3 before the cut
C14_Witness ==
    /\ hist.phase = "restored"
    /\ op.name = "update_sequencer_length"
    /\ hist.before[3][1] # NoNote
    /\ hist.before[3][5] # NoNote
    /\ HasNote(sequencer, 3, 0)
    /\ ~HasNote(sequencer, 3, 4)

---------------------------------------------------------------------------
\* The Pattern group: Index (load), Save, BPM, Length and the touch pads

\* menu.load hands the saved values to the items of the group, in the order
\* of the group: BPM, Length, Step, then the 8 Sequences; each item runs its
\* on_update

RECURSIVE LoadTracks(_, _, _)
LoadTracks(seq, values, track) ==
    IF track >= NumVoices
    THEN [seq |-> seq, edits |-> << >>]
    ELSE LET done == UpdateSequencerTrack(seq, track, values[track])
             rest == LoadTracks(done.seq, values, track + 1)
         IN  [seq |-> rest.seq, edits |-> done.edits \o rest.edits]

ApplySnapshotTracksFirst(seq, snap) ==
    LET tracks == LoadTracks(seq, snap.values, 0)
        bpm == SetAttribute(tracks.seq, "bpm", snap.bpm)
        length == SetLength(bpm, snap.length)
    IN  [seq |-> SetAttribute(length, "steps", snap.steps), edits |-> tracks.edits]

ApplySnapshot(seq, snap) ==
    LET bpm == SetAttribute(seq, "bpm", snap.bpm)
        length == SetLength(bpm, snap.length)
        steps == SetAttribute(length, "steps", snap.steps)
    IN  LoadTracks(steps, snap.values, 0)

\* "Save": menu.save(pattern_group, pattern_index.value, 'pattern')
PatternSave ==
    /\ patterns' =
         [patterns EXCEPT
            !.slots[patterns.index] =
                Snapshot(TRUE, sequencer.bpm, sequencer.length, sequencer.steps,
                         items, sequencer.data)]
    /\ op' = Op("save", patterns.index, NoSelection)
    /\ calls' = << >>
    /\ edits' = << >>
    /\ UNCHANGED <<sequencer, items, settings, midi_in, arrived, tasks, hist>>

\* "Index": menu.load(pattern_group, item, value, 'pattern'); a slot never
\* saved fails with SlotEmpty and leaves the live state as it is
PatternLoad(value) ==
    LET snap == patterns.slots[value]
        done == ApplySnapshot(sequencer, snap)
    IN  /\ patterns' = [patterns EXCEPT !.index = value]
        /\ op' = Op("load", value, NoSelection)
        /\ calls' = << >>
        /\ IF snap.saved
           THEN /\ sequencer' = done.seq
                /\ items' = snap.values
                /\ edits' = done.edits
           ELSE /\ edits' = << >>
                /\ UNCHANGED <<sequencer, items>>
        /\ UNCHANGED <<settings, midi_in, arrived, tasks, hist>>

PatternSlots == {0, 5}
PatternBpms == {90, DefaultBpm}
PatternSelections == { Selection("Sequence", 3, "Item", NoTrack) }

NextPattern ==
    \/ PatternSave
    \/ \E value \in PatternSlots : PatternLoad(value)
    \/ \E selected \in PatternSelections : TtpPress(ShortLength, selected) /\ Quiet
    \/ \E value \in MenuLengths : UpdateSequencerLength(value) /\ Quiet
    \/ \E value \in PatternBpms : UpdateBpm(value) /\ Quiet

SpecPattern == InitWith({FALSE}, {5}, {TRUE}) /\ [][NextPattern]_vars

\* C15: Save keeps in the slot of the current Index the grid, bpm,
\* resolution and length the sequencer has at that moment and touches
\* nothing else; loading a saved slot leaves the sequencer with exactly the
\* grid (has_note and note number of every cell), bpm, resolution and length
\* kept in that slot, whatever the pattern had become since the save.

C15_SaveLoadRoundTrip ==
    [][/\ op'.name = "save"
            => /\ patterns'.slots[patterns.index] =
                    Snapshot(TRUE, sequencer.bpm, sequencer.length,
                             sequencer.steps, items, sequencer.data)
               /\ \A k \in SlotIndexes \ {patterns.index} :
                     patterns'.slots[k] = patterns.slots[k]
               /\ UNCHANGED <<sequencer, items>>
       /\ op'.name = "load" /\ patterns.slots[op'.arg].saved
            => LET snap == patterns.slots[op'.arg]
               IN  /\ sequencer'.data = snap.data
                   /\ sequencer'.bpm = snap.bpm
                   /\ sequencer'.steps = snap.steps
                   /\ sequencer'.length = snap.length
                   /\ patterns'.slots = patterns.slots]_vars

\* slot 5 was loaded: it holds a 16-step pattern with a note and bpm 90, and
\* the load had to put a note back and to grow the pattern
C15_Witness ==
    /\ op.name = "load"
    /\ op.arg = 5
    /\ patterns.slots[5].saved
    /\ patterns.slots[5].length = DefaultLength
    /\ patterns.slots[5].bpm = 90
    /\ sequencer.data = patterns.slots[5].data
    /\ HasNote(sequencer, 3, ShortLength)
    /\ \E e \in 1 .. Len(edits) : edits[e].fn = "set_note"
    /\ patterns.slots[0].saved
    /\ patterns.slots[0].length = ShortLength

---------------------------------------------------------------------------
\* C16: handling a message received on MIDI-In sends nothing of the
\* handler's own making: every message it sends is the received message
\* itself, at most once to each port (the thru echo), and with thru off, or
\* for a message that is not recognized, it sends nothing at all; a step
\* in which a message only arrives sends nothing either.

C16_OnlyThruEchoSent ==
    /\ op.name = "arrive" => calls = << >>
    /\ \A i \in DOMAIN calls :
          LET h == calls[i]
          IN  h.handler = "midi_process_message" =>
                /\ \A j \in DOMAIN h.out :
                      h.out[j].fn = "send" => h.out[j].msg = h.msg
                /\ \A port \in Ports : Len(Sends(h.out, port)) <= 1
                /\ (~settings.midi_thru \/ h.msg.kind = "Unknown")
                      => \A port \in Ports : Sends(h.out, port) = << >>

\* thru on: a Note-Off that passed the filter released its voice and the
\* only messages sent are its two echoes
C16_Witness ==
    /\ settings.midi_thru
    /\ \E i \in DOMAIN calls :
          /\ calls[i].handler = "midi_process_message"
          /\ calls[i].msg.kind = "NoteOff"
          /\ Len(VoiceCalls(calls[i].out)) = 1
          /\ Sends(calls[i].out, "usb") = << Send("usb", calls[i].msg) >>
          /\ Sends(calls[i].out, "uart") = << Send("uart", calls[i].msg) >>
          /\ Len(calls[i].out) = 3

---------------------------------------------------------------------------
\* C17: a sequencer_release run for a track other than 3 makes exactly one
\* voice call, the release of the voice of that track; run for track 3 it
\* releases voice 4 and then voice 3 and no other; a sequencer_press makes
\* exactly one voice call, the press of the voice of its track, and never a
\* release.

C17_OnlyTrack3Couples ==
    \A i \in DOMAIN calls :
        LET h == calls[i]
            v == VoiceCalls(h.out)
        IN  /\ h.handler = "sequencer_release" =>
                \A track \in Tracks :
                    Resolves(h.notenum, track) =>
                        IF track = ClosedHat
                        THEN v = << Release(track + 1), Release(track) >>
                        ELSE v = << Release(track) >>
            /\ h.handler = "sequencer_press" =>
                /\ Len(v) = 1
                /\ v[1].fn = "press"
                /\ Resolves(h.notenum, v[1].voice)

\* one tick released track 3 and track 4, held together: the release of
\* track 4 released voice 4 alone
C17_Witness ==
    /\ op.name = "tick"
    /\ \E i \in DOMAIN calls :
          /\ calls[i].handler = "sequencer_release"
          /\ calls[i].notenum = ClosedHat + 2
          /\ VoiceCalls(calls[i].out) = << Release(ClosedHat + 1) >>
    /\ \E i \in DOMAIN calls :
          /\ calls[i].handler = "sequencer_release"
          /\ calls[i].notenum = ClosedHat + 1

---------------------------------------------------------------------------
\* The asyncio loop.  One task runs at a time; it runs from the top of its
\* loop body to its `await asyncio.sleep`, where the loop may resume any
\* task.  The MIDI task is stepped message by message and the Length edit
\* statement by statement, and messages arrive at the ports at any moment.

\* `await`: a task hands the loop back only when its body starts over
YieldsInsideEdit(task, pc) == pc = Start(task) \/ pc = "items"

Yields(task, pc) == pc = Start(task)

\* `limit -= 1`
SpentNothing(limit) == limit

Spent(limit) == limit - 1

Advance(task, pc, limit, value) ==
    [running |-> IF Yields(task, pc) THEN NoTask ELSE task,
     pc |-> [tasks.pc EXCEPT ![task] = pc],
     limit |-> limit, value |-> value]

\* a step of a task that calls no handler
Idle(name) ==
    /\ op' = Op(name, 0, NoSelection)
    /\ calls' = << >>
    /\ edits' = << >>
    /\ UNCHANGED <<sequencer, items, settings, midi_in, arrived>>

\* the loop resumes a task where it stopped
Resume(task) ==
    /\ tasks.running = NoTask
    /\ tasks' = [tasks EXCEPT !.running = task]
    /\ Idle("resume")
    /\ UNCHANGED <<patterns, hist>>

\* sequencer.update(): one check of the clock, then its sleep
SequencerUpdate ==
    /\ tasks.running = "sequencer"
    /\ Tick
    /\ tasks' = Advance("sequencer", "update", tasks.limit, tasks.value)
    /\ UNCHANGED <<patterns, hist>>

\* touch_task: hardware.ttp.update() calls ttp_press for a pad that went
\* down, or finds none; then the sleep
TouchPress ==
    /\ tasks.running = "touch"
    /\ \E selected \in PlayedSelections : TtpPress(0, selected)
    /\ tasks' = Advance("touch", "ttp", tasks.limit, tasks.value)
    /\ UNCHANGED <<patterns, hist>>

TouchIdle ==
    /\ tasks.running = "touch"
    /\ Idle("ttp_update")
    /\ tasks' = Advance("touch", "ttp", tasks.limit, tasks.value)
    /\ UNCHANGED <<patterns, hist>>

TouchUpdate == TouchPress \/ TouchIdle

\* midi_task: one turn of the `while limit:` loop of midi_process_messages
\* on the port the task is at; when the loop ends the task moves to the
\* other port with a fresh limit, or to its sleep
NextPort(port) == IF port = "usb" THEN "uart" ELSE "usb"

MidiReceive(port) ==
    /\ tasks.running = "midi"
    /\ tasks.pc["midi"] = port
    /\ edits' = << >>
    /\ UNCHANGED <<sequencer, items, settings, arrived, patterns, hist>>
    /\ IF tasks.limit = 0 \/ midi_in[port] = << >>
       THEN /\ tasks' = Advance("midi", NextPort(port), MidiLimit, tasks.value)
            /\ op' = Op("midi_process_messages", MidiLimit - tasks.limit, NoSelection)
            /\ calls' = << >>
            /\ UNCHANGED midi_in
       ELSE LET msg == Head(midi_in[port])
            IN  /\ tasks' = [tasks EXCEPT !.limit = Spent(@)]
                /\ op' = Op("midi_process_message", tasks.limit, NoSelection)
                /\ calls' = << Handled("midi_process_message", port, msg, msg.note,
                                       MidiProcessMessage(msg)) >>
                /\ midi_in' = [midi_in EXCEPT ![port] = Tail(@)]

\* controls_task: menu.handle_controls finds no input, or the Length item
\* changed: update_sequencer_length first assigns sequencer.length
ControlsHandle ==
    /\ tasks.running = "controls"
    /\ tasks.pc["controls"] = "handle"
    /\ UNCHANGED <<patterns, hist>>
    /\ \/ /\ Idle("handle_controls")
          /\ tasks' = Advance("controls", "handle", tasks.limit, tasks.value)
       \/ \E value \in MenuLengths :
             /\ sequencer' = SetLength(sequencer, value)
             /\ tasks' = Advance("controls", "items", tasks.limit, value)
             /\ op' = Op("sequencer.length", value, NoSelection)
             /\ calls' = << >>
             /\ edits' = << >>
             /\ UNCHANGED <<items, settings, midi_in, arrived>>

\* then the length of the 8 menu sequences, then the sleep
ControlsItems ==
    /\ tasks.running = "controls"
    /\ tasks.pc["controls"] = "items"
    /\ items' = [t \in Tracks |-> ItemResize(items[t], tasks.value)]
    /\ tasks' = Advance("controls", "handle", tasks.limit, tasks.value)
    /\ op' = Op("sequence_item.length", tasks.value, NoSelection)
    /\ calls' = << >>
    /\ edits' = << >>
    /\ UNCHANGED <<sequencer, settings, midi_in, arrived, patterns, hist>>

\* controls_task: the Active item changed; then the sleep
ControlsActive ==
    /\ tasks.running = "controls"
    /\ tasks.pc["controls"] = "handle"
    /\ \E value \in BOOLEAN : UpdateActive(value)
    /\ tasks' = Advance("controls", "handle", tasks.limit, tasks.value)
    /\ UNCHANGED <<patterns, hist>>

LoopMessage == Message("NoteOn", 12, 100, 5)

TaskArrive ==
    \E port \in Ports :
        Waiting < MaxQueue /\ MidiArrive(port, LoopMessage) /\ Quiet

\* The task that runs takes its next step.  For the touch task this is
\* stated on the step that finds no pad down, which is possible exactly
\* when the task runs
TaskRuns ==
    \/ SequencerUpdate
    \/ TouchIdle
    \/ \E port \in Ports : MidiReceive(port)
    \/ ControlsHandle
    \/ ControlsItems

NextTasks ==
    \/ \E task \in TaskNames : Resume(task)
    \/ SequencerUpdate
    \/ TouchUpdate
    \/ \E port \in Ports : MidiReceive(port)
    \/ ControlsHandle
    \/ ControlsItems
    \/ ControlsActive
    \/ TaskArrive

SpecTasks == InitWith({FALSE}, {5}, {TRUE}) /\ [][NextTasks]_vars

\* The loop with the clock left stopped, so that a check of the clock is a
\* step that plays nothing
NextLoop ==
    \/ \E task \in TaskNames : Resume(task)
    \/ SequencerUpdate
    \/ TouchUpdate
    \/ \E port \in Ports : MidiReceive(port)
    \/ ControlsHandle
    \/ ControlsItems
    \/ TaskArrive

\* The loop resumes every task whose sleep is over, and a task that runs
\* goes on running; nothing is asked of the arrival of messages
FairTasks ==
    /\ InitWith({FALSE}, {5}, {TRUE})
    /\ [][NextLoop]_vars
    /\ WF_vars(TaskRuns)
    /\ \A task \in TaskNames : SF_vars(Resume(task))

\* the activity a step belongs to
Actor(name) ==
    CASE name = "tick" -> "sequencer"
      [] name \in {"ttp_press", "ttp_update"} -> "touch"
      [] name \in {"midi_process_message", "midi_process_messages"} -> "midi"
      [] name \in {"handle_controls", "update_active", "sequencer.length",
                     "sequence_item.length"} -> "controls"
      [] name = "arrive" -> "environment"
      [] OTHER -> "loop"

---------------------------------------------------------------------------
\* C18: the four activities never interleave inside a unit of work: from
\* the moment the loop resumes a task until that task reaches its sleep,
\* every step of an activity is a step of that task (only messages arriving
\* at the ports come in between), and a task that is inside its loop body
\* is the one that runs: none is ever suspended between the start and the
\* end of its unit of work, and no two are inside their bodies together.

C18_UnitsRunToCompletion ==
    /\ [](\A task \in TaskNames :
            tasks.pc[task] # Start(task) => tasks.running = task)
    /\ [][tasks.running # NoTask
            => Actor(op'.name) \in {tasks.running, "environment"}]_vars

\* the Length edit is half done (sequencer.length is 4, the menu sequences
\* still have 16 steps), a message arrived meanwhile, and the controls task
\* still runs
C18_Witness ==
    /\ tasks.running = "controls"
    /\ tasks.pc["controls"] = "items"
    /\ sequencer.length = ShortLength
    /\ Len(items[0]) = DefaultLength
    /\ op.name = "arrive"

\* C19: every pass of the MIDI task ends and hands the loop back, however
\* fast messages arrive, so the clock, the touch task and the controls task
\* each run again and again.

C19_MidiPassYields ==
    /\ (tasks.running = "midi") ~> (tasks.running = NoTask)
    /\ []<>(Actor(op.name) = "sequencer")
    /\ []<>(Actor(op.name) = "touch")
    /\ []<>(Actor(op.name) = "controls")

\* a pass stopped by its limit: the port still holds a message
C19_Witness ==
    /\ tasks.running = "midi"
    /\ tasks.limit = 0
    /\ midi_in[tasks.pc["midi"]] # << >>

---------------------------------------------------------------------------
\* C20: in every state each of the 8 menu sequences has as many steps as
\* the pattern of the sequencer is long, and so has every track of the
\* pattern; hence the step a touch at pad p designates, p mod the length of
\* the menu sequence, is a position inside the pattern.

C20_ItemLengthIsPatternLength ==
    \A t \in Tracks :
        /\ Len(items[t]) = sequencer.length
        /\ Len(sequencer.data[t]) = sequencer.length
        /\ \A p \in TouchPositions :
              InBounds(sequencer, t, StepIndex(p, Len(items[t])))

\* the length was cut to 4, then pad 4 was touched on the Sequence of
\* track 3: the touch set the note of position 0
C20_Witness ==
    /\ sequencer.length = ShortLength
    /\ \A t \in Tracks : Len(items[t]) = ShortLength
    /\ op.name = "ttp_press"
    /\ op.arg = 4
    /\ Focused(op.selected) = 3
    /\ HasNote(sequencer, 3, 0)
    /\ items[3][1]

====
